---- MODULE Spec2Model ----
(***************************************************************************)
(* PSNL (Proxmox Scheduled Network Limiter), src/src/index.ts.             *)
(*                                                                         *)
(* A JavaScript string is a sequence of one-character strings, so that    *)
(* split, join and template literals are computed character by character. *)
(* A JavaScript object with string keys is the sequence of its own        *)
(* properties [k, v] in insertion order, keys distinct.                   *)
(***************************************************************************)
EXTENDS Integers, Sequences, FiniteSets, TLC

(***************************************************************************)
(* Strings                                                                 *)
(***************************************************************************)
Digits == <<"0", "1", "2", "3", "4", "5", "6", "7", "8", "9">>

IsDigit(c) == \E i \in 1..10 : Digits[i] = c

DigitVal(c) == (CHOOSE i \in 1..10 : Digits[i] = c) - 1

\* Number.prototype.toString for a non-negative integer
RECURSIVE NatToString(_)
NatToString(n) ==
  IF n < 10 THEN <<Digits[n + 1]>>
  ELSE NatToString(n \div 10) \o <<Digits[(n % 10) + 1]>>

\* the value of a string of decimal digits (parseInt on /^\d+$/)
RECURSIVE DigitsToNatFirst(_, _)
DigitsToNatFirst(s, n) ==
  IF n = 0 THEN 0 ELSE DigitsToNatFirst(s, n - 1) * 10 + DigitVal(s[n])

DigitsToNat(s) == DigitsToNatFirst(s, Len(s))

AllDigits(s) == s # <<>> /\ \A i \in 1..Len(s) : IsDigit(s[i])

\* String.prototype.split(sep) for a one-character separator: "" gives [""],
\* "a," gives ["a", ""]
Split(s, sep) ==
  LET at     == {i \in 1..Len(s) : s[i] = sep}
      n      == Cardinality(at)
      \* the place of the k-th separator; 0 and Len(s) + 1 bound the string
      cut(k) == IF k = 0 THEN 0
                ELSE IF k > n THEN Len(s) + 1
                ELSE CHOOSE i \in at : Cardinality({j \in at : j < i}) = k - 1
  IN [k \in 1..(n + 1) |-> SubSeq(s, cut(k - 1) + 1, cut(k) - 1)]

\* Array.prototype.join(sep)
RECURSIVE JoinFirst(_, _, _)
JoinFirst(parts, sep, n) ==
  IF n = 0 THEN <<>>
  ELSE IF n = 1 THEN parts[1]
  ELSE JoinFirst(parts, sep, n - 1) \o <<sep>> \o parts[n]

Join(parts, sep) == JoinFirst(parts, sep, Len(parts))

(***************************************************************************)
(* Objects: own string-keyed properties                                    *)
(***************************************************************************)
Keys(obj) == {obj[i].k : i \in 1..Len(obj)}

HasKey(obj, key) == \E i \in 1..Len(obj) : obj[i].k = key

Get(obj, key) == obj[CHOOSE i \in 1..Len(obj) : obj[i].k = key].v

\* obj[key] = value: an existing property keeps its place
Put(obj, key, value) ==
  IF HasKey(obj, key)
  THEN [i \in 1..Len(obj) |->
          IF obj[i].k = key THEN [k |-> key, v |-> value] ELSE obj[i]]
  ELSE Append(obj, [k |-> key, v |-> value])

\* delete obj[key]
Delete(obj, key) == SelectSeq(obj, LAMBDA e : e.k # key)

\* a canonical array index ("0", "7", "10"; not "07"): such keys are
\* enumerated first, in ascending numeric order
IsIndexKey(key) == AllDigits(key) /\ (Len(key) = 1 \/ key[1] # "0")

RECURSIVE SortIndexKeys(_)
SortIndexKeys(obj) ==
  IF obj = <<>> THEN <<>>
  ELSE LET m == CHOOSE i \in 1..Len(obj) :
                  \A j \in 1..Len(obj) :
                     DigitsToNat(obj[i].k) <= DigitsToNat(obj[j].k)
       IN <<obj[m]>> \o SortIndexKeys(Delete(obj, obj[m].k))

\* Object.entries(obj), and the order in which {...obj} copies
Entries(obj) ==
  SortIndexKeys(SelectSeq(obj, LAMBDA e : IsIndexKey(e.k)))
    \o SelectSeq(obj, LAMBDA e : ~IsIndexKey(e.k))

\* the object as a map: its key set with the value of every key
AsMap(obj) == {<<obj[i].k, obj[i].v>> : i \in 1..Len(obj)}

(***************************************************************************)
(* NetworkManager                                                          *)
(***************************************************************************)
RateKey == <<"r", "a", "t", "e">>

\* the forEach callback of parseNetworkInterface: const [key, value] =
\* item.split("="); if (key && value !== undefined) net[key] = value
ParseItem(net, item) ==
  LET parts == Split(item, "=")
      key   == parts[1]
  IN IF key # <<>> /\ Len(parts) >= 2 THEN Put(net, key, parts[2]) ELSE net

RECURSIVE ParseItems(_, _)
ParseItems(net, items) ==
  IF items = <<>> THEN net
  ELSE ParseItems(ParseItem(net, Head(items)), Tail(items))

parseNetworkInterface(interfaceString) ==
  ParseItems(<<>>, Split(interfaceString, ","))

buildNetworkInterface(net) ==
  LET es == Entries(net)
  IN Join([i \in 1..Len(es) |-> es[i].k \o <<"=">> \o es[i].v], ",")

\* as updateInterfaceRate, without the branch for a rate of 0
updateInterfaceRateNoDelete(net, rate) ==
  [net |-> net, ret |-> Put(Entries(net), RateKey, NatToString(rate))]

\* as updateInterfaceRate, working on the argument itself (const updatedNet =
\* net): the object returned is the argument
updateInterfaceRateInPlace(net, rate) ==
  LET updatedNet == IF rate = 0 THEN Delete(net, RateKey)
                    ELSE Put(net, RateKey, NatToString(rate))
  IN [net |-> updatedNet, ret |-> updatedNet]

\* net: the argument object after the call; ret: the object returned
updateInterfaceRate(net, rate) ==
  LET updatedNet == Entries(net)
  IN [net |-> net,
      ret |-> IF rate = 0 THEN Delete(updatedNet, RateKey)
              ELSE Put(updatedNet, RateKey, NatToString(rate))]

(***************************************************************************)
(* Time: the clock counts minutes of UTC from a midnight of UTC; a zone     *)
(* gives the offset of its wall clock at every minute                      *)
(***************************************************************************)
HoursPerDay == 24

MinutesPerHour == 60

MinutesPerDay == HoursPerDay * MinutesPerHour

Zones == {"UTC", "Asia/Seoul", "America/New_York"}

\* the minute at which daylight saving time ends in America/New_York: on the
\* second day 02:00 EDT (06:00 UTC) is 01:00 EST
FallBack == MinutesPerDay + 6 * MinutesPerHour

\* the offsets from UTC the wall clock of a zone has
Offsets(zone) ==
  CASE zone = "UTC" -> {0}
    [] zone = "Asia/Seoul" -> {9 * MinutesPerHour}
    [] zone = "America/New_York" -> {0 - 4 * MinutesPerHour,
                                     0 - 5 * MinutesPerHour}

\* and the one it has at minute m
ZoneOffset(zone, m) ==
  CASE zone = "UTC" -> 0
    [] zone = "Asia/Seoul" -> 9 * MinutesPerHour
    [] zone = "America/New_York" ->
         IF m < FallBack THEN 0 - 4 * MinutesPerHour
         ELSE 0 - 5 * MinutesPerHour

\* the minute of the day that the wall clock of `zone` reads at minute m
LocalMinute(m, zone) ==
  (m + ZoneOffset(zone, m) + MinutesPerDay) % MinutesPerDay

UtcMinute(m) == m % MinutesPerDay

(***************************************************************************)
(* node-cron: cron.schedule(expression, callback, {timezone})              *)
(***************************************************************************)
Star == <<"*">>

UndefinedText == <<"u", "n", "d", "e", "f", "i", "n", "e", "d">>

\* const [hour, minute] = time.split(":");
\* const cronExpression = `${minute} ${hour} * * *`;
CronExpression(time) ==
  LET parts  == Split(time, ":")
      hour   == parts[1]
      minute == IF Len(parts) >= 2 THEN parts[2] ELSE UndefinedText
  IN minute \o <<" ">> \o hour \o <<" ", "*", " ", "*", " ", "*">>

\* a field of the expression: `*` or a decimal number of the field's range
ValidField(f, count) ==
  f = Star \/ (AllDigits(f) /\ DigitsToNat(f) < count)

\* the expression cron.schedule accepts (it throws on any other)
ValidCron(expr) ==
  \E f \in {Split(expr, " ")} :
    /\ Len(f) = 5
    /\ ValidField(f[1], MinutesPerHour)
    /\ ValidField(f[2], HoursPerDay)
    /\ f[3] = Star /\ f[4] = Star /\ f[5] = Star

FieldValues(f, count) ==
  IF f = Star THEN 0..(count - 1) ELSE {DigitsToNat(f)}

\* the minutes of the day at which a task of this expression runs
MatchSet(expr) ==
  UNION {{h * MinutesPerHour + mi :
            h \in FieldValues(f[2], HoursPerDay),
            mi \in FieldValues(f[1], MinutesPerHour)} :
         f \in {Split(expr, " ")}}

(***************************************************************************)
(* State                                                                   *)
(***************************************************************************)
VARIABLES
  config,   \* Application.config, as loaded from config.json
  phase,    \* "init" before app.start(), then "running"; "exited" once an
            \* exception has left the program
  tasks,    \* the tasks cron.schedule has registered, in order
  now,      \* the clock: minutes of UTC since the process started
  fires,    \* history: for every task the minutes at which its callback ran
  acts,     \* one record per run of a task's callback
  remote,   \* the remote service: the configuration of every guest
  codec     \* the NetworkManager call under study: arguments and result

vars == <<config, phase, tasks, now, fires, acts, remote, codec>>

(***************************************************************************)
(* ProxmoxClient                                                           *)
(***************************************************************************)
\* getConfigUrl: the guest the request addresses
getConfigUrl(client, nodeName, type, vmId) ==
  [host |-> client.host, node |-> nodeName, type |-> type, id |-> vmId]

\* A response: ok is response.ok; kind tells what `const { data } = await
\* response.json()` gives: "object" (data is the guest's configuration),
\* "null" (data is null), "value" (data is anything else) or "invalid" (the
\* body is no JSON object, the statement throws)
Response(ok, kind, data) == [ok |-> ok, kind |-> kind, data |-> data]

NoResponse == Response(FALSE, "none", <<>>)

getCurrentConfig(res) ==
  IF ~res.ok THEN [error |-> "Failed to get config", kind |-> "none",
                   data |-> <<>>]
  ELSE IF res.kind = "invalid"
  THEN [error |-> "invalid json", kind |-> "none", data |-> <<>>]
  ELSE [error |-> "none", kind |-> res.kind, data |-> res.data]

\* as updateConfig, returning true for every answer of a successful status
updateConfigStatusOnly(res) ==
  IF ~res.ok THEN [error |-> "Failed to update config", ret |-> FALSE]
  ELSE IF res.kind = "invalid" THEN [error |-> "invalid json", ret |-> FALSE]
  ELSE [error |-> "none", ret |-> TRUE]

\* as updateConfig, without the test of response.ok
updateConfigNoStatus(res) ==
  IF res.kind = "invalid" THEN [error |-> "invalid json", ret |-> FALSE]
  ELSE [error |-> "none", ret |-> (res.kind = "null")]

updateConfig(res) ==
  IF ~res.ok THEN [error |-> "Failed to update config", ret |-> FALSE]
  ELSE IF res.kind = "invalid" THEN [error |-> "invalid json", ret |-> FALSE]
  ELSE [error |-> "none", ret |-> (res.kind = "null")]

(***************************************************************************)
(* Application: start, setupServerSchedules, setupNodeSchedules            *)
(***************************************************************************)
\* the first n sequences of seqs, one after the other
RECURSIVE ConcatFirst(_, _)
ConcatFirst(seqs, n) ==
  IF n = 0 THEN <<>> ELSE ConcatFirst(seqs, n - 1) \o seqs[n]

Concat(seqs) == ConcatFirst(seqs, Len(seqs))

\* new ProxmoxClient(serverUrl, serverConfig.id, serverConfig.secret)
ProxmoxClient(host, apiId, apiSecret) ==
  [host |-> host, apiId |-> apiId, apiSecret |-> apiSecret]

\* as setupNodeSchedules, taking only the first interface of a time
setupNodeSchedulesFirst(client, nodeName, node) ==
  Concat([t \in 1..Len(node.sched) |->
    [j \in 1..(IF node.sched[t].ifaces = <<>> THEN 0 ELSE 1) |->
      [client         |-> client,
       nodeName       |-> nodeName,
       type           |-> node.type,
       id             |-> node.id,
       time           |-> node.sched[t].time,
       interfaceName  |-> node.sched[t].ifaces[j].name,
       interfaceValue |-> node.sched[t].ifaces[j].rate]]])

\* the calls of scheduleNetworkUpdate that setupNodeSchedules makes, in order
setupNodeSchedules(client, nodeName, node) ==
  Concat([t \in 1..Len(node.sched) |->
    [j \in 1..Len(node.sched[t].ifaces) |->
      [client         |-> client,
       nodeName       |-> nodeName,
       type           |-> node.type,
       id             |-> node.id,
       time           |-> node.sched[t].time,
       interfaceName  |-> node.sched[t].ifaces[j].name,
       interfaceValue |-> node.sched[t].ifaces[j].rate]]])

setupServerSchedules(server) ==
  LET client == ProxmoxClient(server.url, server.id, server.secret)
  IN Concat([n \in 1..Len(server.nodes) |->
       Concat([g \in 1..Len(server.nodes[n].guests) |->
         setupNodeSchedules(client, server.nodes[n].name,
                            server.nodes[n].guests[g])])])

StartCalls(cfg) ==
  Concat([s \in 1..Len(cfg.servers) |-> setupServerSchedules(cfg.servers[s])])

\* as scheduleNetworkUpdate, without the { timezone } option: cron runs the
\* task on the clock of the host, taken to be UTC
scheduleNetworkUpdateNoZone(timezone, call) ==
  LET cronExpression == CronExpression(call.time)
  IN [threw |-> ~ValidCron(cronExpression),
      task  |-> [client         |-> call.client,
                 nodeName       |-> call.nodeName,
                 type           |-> call.type,
                 id             |-> call.id,
                 time           |-> call.time,
                 interfaceName  |-> call.interfaceName,
                 interfaceValue |-> call.interfaceValue,
                 expression     |-> cronExpression,
                 minutes        |-> IF ValidCron(cronExpression)
                                   THEN MatchSet(cronExpression) ELSE {},
                 timezone       |-> "UTC"]]

\* ScheduleManager.scheduleNetworkUpdate: the task handed to cron.schedule,
\* which throws when it does not accept the expression
scheduleNetworkUpdate(timezone, call) ==
  LET cronExpression == CronExpression(call.time)
  IN [threw |-> ~ValidCron(cronExpression),
      task  |-> [client         |-> call.client,
                 nodeName       |-> call.nodeName,
                 type           |-> call.type,
                 id             |-> call.id,
                 time           |-> call.time,
                 interfaceName  |-> call.interfaceName,
                 interfaceValue |-> call.interfaceValue,
                 expression     |-> cronExpression,
                 minutes        |-> IF ValidCron(cronExpression)
                                   THEN MatchSet(cronExpression) ELSE {},
                 timezone       |-> timezone]]

\* the calls one after the other; the first exception ends app.start(), and
\* the tasks registered before it stay registered
RunCalls(timezone, calls) ==
  LET threw(n) == scheduleNetworkUpdate(timezone, calls[n]).threw
      done     == {n \in 0..Len(calls) : \A k \in 1..n : ~threw(k)}
      last     == CHOOSE n \in done : \A k \in done : k <= n
  IN [tasks |-> [n \in 1..last |->
                   scheduleNetworkUpdate(timezone, calls[n]).task],
      threw |-> last < Len(calls)]

\* as Start, with the README's evaluation at the start: a run of every task
\* is started at once
StartApplyingActive ==
  /\ phase = "init"
  /\ \E calls \in {StartCalls(config)} :
       \E r \in {RunCalls(config.timezone, calls)} :
         /\ tasks' = r.tasks
         /\ phase' = IF r.threw THEN "exited" ELSE "running"
         /\ fires' = [i \in 1..Len(r.tasks) |-> {}]
         /\ acts' = [i \in 1..Len(r.tasks) |->
                       [task      |-> i,
                        at        |-> now,
                        pc        |-> "readSent",
                        url       |-> getConfigUrl(r.tasks[i].client,
                                                   r.tasks[i].nodeName,
                                                   r.tasks[i].type,
                                                   r.tasks[i].id),
                        readRes   |-> NoResponse,
                        writeRes  |-> NoResponse,
                        newConfig |-> <<>>,
                        reads     |-> 1,
                        writes    |-> 0,
                        logged    |-> "none",
                        outcome   |-> "none",
                        escaped   |-> FALSE]]
  /\ UNCHANGED <<config, now, remote, codec>>

\* app.start() at the top level of the program: an exception ends the process
Start ==
  /\ phase = "init"
  /\ \E calls \in {StartCalls(config)} :
       \E r \in {RunCalls(config.timezone, calls)} :
         /\ tasks' = r.tasks
         /\ phase' = IF r.threw THEN "exited" ELSE "running"
         /\ fires' = [i \in 1..Len(r.tasks) |-> {}]
  /\ UNCHANGED <<config, now, acts, remote, codec>>

(***************************************************************************)
(* Configurations (config.json)                                            *)
(***************************************************************************)
T0700 == <<"0", "7", ":", "0", "0">>

T2300 == <<"2", "3", ":", "0", "0">>

T2330 == <<"2", "3", ":", "3", "0">>

\* schedule keys that are not a time of day
TNoMinute == <<"0", "7">>

THour24 == <<"2", "4", ":", "0", "0">>

TMinute60 == <<"0", "7", ":", "6", "0">>

TWildHour == <<"*", ":", "0", "0">>

TWildMinute == <<"0", "7", ":", "*">>

TLetters == <<"a", "b", ":", "c", "d">>

TSeconds == <<"0", "7", ":", "0", "0", ":", "3", "0">>

TEmptyMinute == <<"0", "7", ":">>

TEmpty == <<>>

TimePool ==
  {T0700, T2330, TNoMinute, THour24, TMinute60, TWildHour, TWildMinute,
   TLetters, TSeconds, TEmptyMinute, TEmpty}

Iface(name, rate) == [name |-> name, rate |-> rate]

Entry(time, ifaces) == [time |-> time, ifaces |-> ifaces]

Guest(type, id, sched) == [type |-> type, id |-> id, sched |-> sched]

NodeEntry(name, guests) == [name |-> name, guests |-> guests]

Server(url, nodes) ==
  [url |-> url, id |-> "root@pam!" \o url, secret |-> "secret-" \o url,
   nodes |-> nodes]

R7 == <<Iface("net0", 7)>>

R05 == <<Iface("net0", 0), Iface("net1", 5)>>

StructScheds ==
  {<<>>, <<Entry(T0700, R7)>>, <<Entry(T0700, R05), Entry(T2330, R7)>>,
   <<Entry(T2330, <<>>)>>}

StructGuests ==
  {Guest("lxc", 106, s) : s \in StructScheds}
    \cup {Guest("qemu", 107, s) : s \in StructScheds}

GuestLists ==
  {<<>>} \cup {<<g>> : g \in StructGuests}
    \cup {<<g1, g2>> : g1 \in StructGuests, g2 \in StructGuests}

SmallGuestLists ==
  {<<>>, <<Guest("lxc", 106, <<Entry(T0700, R7)>>)>>,
   <<Guest("qemu", 107, <<Entry(T0700, R05), Entry(T2330, R7)>>)>>}

NodeObjs ==
  {<<>>} \cup {<<NodeEntry("pve1", gl)>> : gl \in GuestLists}
    \cup {<<NodeEntry("pve1", g1), NodeEntry("pve2", g2)>> :
            g1 \in SmallGuestLists, g2 \in SmallGuestLists}

SmallNodeObjs ==
  {<<>>} \cup {<<NodeEntry("pve1", gl)>> : gl \in SmallGuestLists}
    \cup {<<NodeEntry("pve1", gl), NodeEntry("pve2", gl)>> :
            gl \in SmallGuestLists \ {<<>>}}

TimeScheds ==
  {<<Entry(t, R7)>> : t \in TimePool}
    \cup {<<Entry(p[1], R7), Entry(p[2], R05)>> :
            p \in {q \in TimePool \X TimePool : q[1] # q[2]}}

ServerLists ==
  {<<Server("https://a:8006", n)>> : n \in NodeObjs}
    \cup {<<Server("https://a:8006", n1), Server("https://b:8006", n2)>> :
            n1 \in SmallNodeObjs, n2 \in SmallNodeObjs}
    \cup {<<Server("https://a:8006",
                   <<NodeEntry("pve1", <<Guest("lxc", 106, s)>>)>>)>> :
            s \in TimeScheds}

\* the configurations app.start() is run over
StartConfigs ==
  {[timezone |-> z, servers |-> sl] : z \in Zones, sl \in ServerLists}

CodecIdle == [op |-> "none", net |-> <<>>, rate |-> 0, netAfter |-> <<>>,
              str |-> <<>>, ret |-> <<>>]

StartInit ==
  /\ config \in StartConfigs
  /\ phase = "init"
  /\ tasks = <<>>
  /\ now = 0
  /\ fires = <<>>
  /\ acts = <<>>
  /\ remote = <<>>
  /\ codec = CodecIdle

StartSpec == StartInit /\ [][Start]_vars

(***************************************************************************)
(* ScheduleManager.setNetworkInterface and the cron callback               *)
(***************************************************************************)
\* as setNetworkInterfaceRead, with a missing interface read as an empty
\* descriptor (currentConfig[interfaceName] || "")
setNetworkInterfaceReadDefault(task, res) ==
  LET currentConfig == getCurrentConfig(res)
      found == /\ currentConfig.error = "none"
               /\ currentConfig.kind = "object"
               /\ HasKey(currentConfig.data, task.interfaceName)
      currentNet == parseNetworkInterface(
                      IF found THEN Get(currentConfig.data, task.interfaceName)
                      ELSE <<>>)
      updatedNet == updateInterfaceRate(currentNet, task.interfaceValue).ret
  IN IF currentConfig.error # "none"
     THEN [error |-> currentConfig.error, newConfig |-> <<>>]
     ELSE IF currentConfig.kind # "object"
     THEN [error |-> "TypeError", newConfig |-> <<>>]
     ELSE [error |-> "none",
           newConfig |-> <<[k |-> task.interfaceName,
                            v |-> buildNetworkInterface(updatedNet)]>>]

\* as setNetworkInterfaceRead, with the whole configuration read as the body
\* of the PUT ({ ...currentConfig, [interfaceName]: ... })
setNetworkInterfaceReadWhole(task, res) ==
  LET currentConfig == getCurrentConfig(res)
      found == /\ currentConfig.error = "none"
               /\ currentConfig.kind = "object"
               /\ HasKey(currentConfig.data, task.interfaceName)
               /\ Get(currentConfig.data, task.interfaceName) # <<>>
      currentNet == parseNetworkInterface(
                      Get(currentConfig.data, task.interfaceName))
      updatedNet == updateInterfaceRate(currentNet, task.interfaceValue).ret
  IN IF currentConfig.error # "none"
     THEN [error |-> currentConfig.error, newConfig |-> <<>>]
     ELSE IF currentConfig.kind # "object"
     THEN [error |-> "TypeError", newConfig |-> <<>>]
     ELSE IF ~found
     THEN [error |-> "Interface not found", newConfig |-> <<>>]
     ELSE [error |-> "none",
           newConfig |-> Put(currentConfig.data, task.interfaceName,
                             buildNetworkInterface(updatedNet))]

\* from the answer of getCurrentConfig to the call of updateConfig:
\* error is the exception thrown, newConfig the body of the PUT request
setNetworkInterfaceRead(task, res) ==
  LET currentConfig == getCurrentConfig(res)
      found == /\ currentConfig.error = "none"
               /\ currentConfig.kind = "object"
               /\ HasKey(currentConfig.data, task.interfaceName)
               /\ Get(currentConfig.data, task.interfaceName) # <<>>
      currentNet == parseNetworkInterface(
                      Get(currentConfig.data, task.interfaceName))
      updatedNet == updateInterfaceRate(currentNet, task.interfaceValue).ret
  IN IF currentConfig.error # "none"
     THEN [error |-> currentConfig.error, newConfig |-> <<>>]
     ELSE IF currentConfig.kind # "object"
     THEN [error |-> "TypeError", newConfig |-> <<>>]
     ELSE IF ~found
     THEN [error |-> "Interface not found", newConfig |-> <<>>]
     ELSE [error |-> "none",
           newConfig |-> <<[k |-> task.interfaceName,
                            v |-> buildNetworkInterface(updatedNet)]>>]

\* as TryCatch, without the catch: the exception leaves setNetworkInterface
TryNoCatch(error, value) ==
  [ret |-> value, logged |-> "none", escaped |-> (error # "none")]

\* try { ... } catch (error) { Logger.error(...); return false; }
TryCatch(error, value) ==
  IF error = "none"
  THEN [ret |-> value, logged |-> "none", escaped |-> FALSE]
  ELSE [ret |-> FALSE, logged |-> error, escaped |-> FALSE]

\* A run of the callback. task: the task it belongs to; at: the minute it
\* started; pc: the await it stands at ("readSent", "writeSent") or "done";
\* readRes, writeRes: the answers it resumed on; newConfig: the body of its
\* PUT; reads, writes: the requests it has sent; logged: the exception
\* setNetworkInterface caught; outcome: the callback's last log ("success",
\* "failure"); escaped: an exception left it.
\* As cron starts it: Logger.info, then
\* setNetworkInterface up to its first await (the GET request is sent)
NewAct(i, m) ==
  [task      |-> i,
   at        |-> m,
   pc        |-> "readSent",
   url       |-> getConfigUrl(tasks[i].client, tasks[i].nodeName,
                              tasks[i].type, tasks[i].id),
   readRes   |-> NoResponse,
   writeRes  |-> NoResponse,
   newConfig |-> <<>>,
   reads     |-> 1,
   writes    |-> 0,
   logged    |-> "none",
   outcome   |-> "none",
   escaped   |-> FALSE]

\* as Finish, with a failed run sending its GET once more
FinishRetry(act, r) ==
  IF r.escaped \/ r.ret
  THEN [act EXCEPT !.pc = "done", !.logged = r.logged,
                   !.escaped = r.escaped,
                   !.outcome = IF r.escaped THEN "none" ELSE "success"]
  ELSE [act EXCEPT !.pc = "readSent", !.logged = r.logged,
                   !.reads = @ + 1, !.newConfig = <<>>]

\* the end of the callback: if (success) Logger.success(...) else
\* Logger.error(...); an exception that reaches it rejects its promise
Finish(act, r) ==
  [act EXCEPT !.pc = "done",
              !.logged = r.logged,
              !.escaped = r.escaped,
              !.outcome = IF r.escaped THEN "none"
                          ELSE IF r.ret THEN "success" ELSE "failure"]

(***************************************************************************)
(* The clock and the tasks                                                 *)
(***************************************************************************)
MaxDays == 2

MaxActs == 4

SetMin(S) == CHOOSE x \in S : \A y \in S : x <= y

\* the first minute after n at which a clock of this offset reads `target`
NextAfter(n, target, offset) ==
  n + 1 + ((target + 2 * MinutesPerDay - ((n + 1 + offset) % MinutesPerDay))
             % MinutesPerDay)

\* The clock passes every minute; nothing happens at a minute at which no
\* task's expression matches, so the model steps to the next minute at which
\* some expression matches the zone's wall clock or the UTC clock.
NextMinute(n) ==
  SetMin({m \in UNION {UNION {{NextAfter(n, t, o + MinutesPerDay) :
                                 o \in Offsets(tasks[i].timezone) \cup {0}} :
                               t \in tasks[i].minutes} :
                        i \in 1..Len(tasks)} :
            \E i \in 1..Len(tasks) :
              \/ LocalMinute(m, tasks[i].timezone) \in tasks[i].minutes
              \/ UtcMinute(m) \in tasks[i].minutes})

\* as DueTasks, with one callback at a time: nothing starts while a run is
\* under way, and then only the first due task
DueTasksOneAtATime(m) ==
  LET due == SelectSeq([i \in 1..Len(tasks) |-> i],
               LAMBDA i : /\ phase = "running"
                          /\ LocalMinute(m, tasks[i].timezone)
                               \in tasks[i].minutes)
  IN IF due = <<>> \/ \E a \in 1..Len(acts) : acts[a].pc # "done"
     THEN <<>> ELSE <<due[1]>>

\* the tasks cron runs at minute m, in the order of their registration: every
\* task whose expression matches the wall clock of its zone
DueTasks(m) ==
  SelectSeq([i \in 1..Len(tasks) |-> i],
            LAMBDA i : /\ phase = "running"
                       /\ LocalMinute(m, tasks[i].timezone)
                            \in tasks[i].minutes)

InSeq(x, seq) == \E k \in 1..Len(seq) : seq[k] = x

\* a minute passes and cron starts the callback of every due task
Tick ==
  /\ phase # "init"
  /\ tasks # <<>>
  /\ \E m \in {NextMinute(now)} :
       \E due \in {DueTasks(m)} :
         /\ m <= MaxDays * MinutesPerDay
         /\ Len(acts) + Len(due) <= MaxActs
         /\ now' = m
         /\ acts' = acts \o [k \in 1..Len(due) |-> NewAct(due[k], m)]
         /\ fires' = [i \in 1..Len(tasks) |->
                        IF InSeq(i, due) THEN fires[i] \cup {m} ELSE fires[i]]
  /\ UNCHANGED <<config, phase, tasks, remote, codec>>

(***************************************************************************)
(* The remote service                                                      *)
(***************************************************************************)
\* PUT: the options of the body replace those of the guest's configuration
RECURSIVE ApplyPatch(_, _)
ApplyPatch(cfg, patch) ==
  IF patch = <<>> THEN cfg
  ELSE ApplyPatch(Put(cfg, Head(patch).k, Head(patch).v), Tail(patch))

\* the answers the service can give to a GET of a guest's configuration
ReadResponses(url) ==
  {Response(FALSE, "invalid", <<>>), Response(TRUE, "invalid", <<>>),
   Response(TRUE, "null", <<>>)}
    \cup (IF HasKey(remote, url)
          THEN {Response(TRUE, "object", Get(remote, url))} ELSE {})

\* the answers to a PUT; the service applies the body when it answers
\* { data: null } with a successful status (it answers an error with a body
\* that is no JSON or with { data: null, errors: ... })
WriteResponses ==
  {Response(FALSE, "invalid", <<>>), Response(FALSE, "null", <<>>),
   Response(TRUE, "invalid", <<>>), Response(TRUE, "null", <<>>),
   Response(TRUE, "value", <<>>)}

\* the configuration of the guests once the service has answered `res` to a
\* PUT of `patch`
AfterWrite(url, patch, res) ==
  IF res.ok /\ res.kind = "null" /\ HasKey(remote, url)
  THEN Put(remote, url, ApplyPatch(Get(remote, url), patch))
  ELSE remote

(***************************************************************************)
(* The callback resumes: an answer arrives and the callback runs on to its *)
(* next await or to its end. Until then the request is in flight; the      *)
(* service may leave it without an answer for ever.                        *)
(***************************************************************************)
\* an exception nobody catches ends the process
Outcome(act) == IF act.escaped THEN "exited" ELSE phase

\* the answer to the GET arrives: setNetworkInterface runs on to the PUT
\* request, or to its end
ReadReturns(a) ==
  /\ phase = "running"
  /\ a \in 1..Len(acts)
  /\ acts[a].pc = "readSent"
  /\ \E res \in ReadResponses(acts[a].url) :
       \E r \in {setNetworkInterfaceRead(tasks[acts[a].task], res)} :
         \E got \in {[acts[a] EXCEPT !.readRes = res]} :
           \E next \in {IF r.error = "none"
                         THEN [got EXCEPT !.pc = "writeSent",
                                          !.newConfig = r.newConfig,
                                          !.writes = @ + 1]
                         ELSE Finish(got, TryCatch(r.error, FALSE))} :
             /\ acts' = [acts EXCEPT ![a] = next]
             /\ phase' = Outcome(next)
  /\ UNCHANGED <<config, tasks, now, fires, remote, codec>>

\* the answer to the PUT arrives: updateConfig returns or throws, and the
\* callback logs its outcome
WriteReturns(a) ==
  /\ phase = "running"
  /\ a \in 1..Len(acts)
  /\ acts[a].pc = "writeSent"
  /\ \E res \in WriteResponses :
       \E r \in {updateConfig(res)} :
         \E next \in {Finish([acts[a] EXCEPT !.writeRes = res],
                              TryCatch(r.error, r.ret))} :
           /\ acts' = [acts EXCEPT ![a] = next]
           /\ phase' = Outcome(next)
           /\ remote' = AfterWrite(acts[a].url, acts[a].newConfig, res)
  /\ UNCHANGED <<config, tasks, now, fires, codec>>

(***************************************************************************)
(* The program with its clock and the remote service                       *)
(***************************************************************************)
RunServers ==
  <<Server("https://a:8006",
           <<NodeEntry("pve1",
               <<Guest("lxc", 106, <<Entry(T0700, <<Iface("net0", 7)>>)>>),
                 Guest("qemu", 107, <<Entry(T0700, <<Iface("net0", 0)>>)>>)>>)>>)>>

RunConfigs ==
  {[timezone |-> z, servers |-> RunServers] : z \in Zones}

\* what the remote service holds for a guest at the start
DescPool ==
  {<<[k |-> "net0", v |-> <<"m", "=", "v", ",", "r", "a", "t", "e", "=", "5">>]>>,
   <<[k |-> "net1", v |-> <<"m", "=", "v">>]>>}

GuestUrls(cfg) ==
  LET calls == StartCalls(cfg)
  IN {getConfigUrl(calls[i].client, calls[i].nodeName, calls[i].type,
                   calls[i].id) : i \in 1..Len(calls)}

RECURSIVE SetToSeq(_)
SetToSeq(S) ==
  IF S = {} THEN <<>>
  ELSE LET x == CHOOSE y \in S : TRUE IN <<x>> \o SetToSeq(S \ {x})

RemoteInits(cfg) ==
  LET urls == SetToSeq(GuestUrls(cfg))
  IN {[i \in 1..Len(urls) |-> [k |-> urls[i], v |-> f[i]]] :
        f \in [1..Len(urls) -> DescPool]}

Init ==
  /\ config \in RunConfigs
  /\ phase = "init"
  /\ tasks = <<>>
  /\ now = 0
  /\ fires = <<>>
  /\ acts = <<>>
  /\ remote \in RemoteInits(config)
  /\ codec = CodecIdle

Next ==
  \/ Start
  \/ Tick
  \/ \E a \in 1..MaxActs : ReadReturns(a)
  \/ \E a \in 1..MaxActs : WriteReturns(a)

Spec == Init /\ [][Next]_vars

(***************************************************************************)
(* The program with a process that is sure to start and a clock that is    *)
(* sure to move. A callback resumes when its answer arrives; the remote    *)
(* service answers when it pleases, or never, so that ReadReturns and      *)
(* WriteReturns carry no fairness.                                         *)
(***************************************************************************)
FairInit ==
  /\ config = [timezone |-> "UTC", servers |-> RunServers]
  /\ phase = "init"
  /\ tasks = <<>>
  /\ now = 0
  /\ fires = <<>>
  /\ acts = <<>>
  /\ remote \in {r \in RemoteInits(config) :
                   \A i \in 1..Len(r) : HasKey(r[i].v, "net0")}
  /\ codec = CodecIdle

FairSpec == FairInit /\ [][Next]_vars /\ WF_vars(Start) /\ WF_vars(Tick)

(***************************************************************************)
(* One guest with several tasks: two interfaces at one time, or one        *)
(* interface at two times                                                  *)
(***************************************************************************)
OneGuest(sched) ==
  [timezone |-> "UTC",
   servers  |-> <<Server("https://a:8006",
                    <<NodeEntry("pve1", <<Guest("lxc", 106, sched)>>)>>)>>]

\* two interfaces at one time
RaceConfig ==
  OneGuest(<<Entry(T0700, <<Iface("net0", 7), Iface("net1", 5)>>)>>)

\* one interface at two times
StepConfig ==
  OneGuest(<<Entry(T0700, <<Iface("net0", 7)>>),
             Entry(T2300, <<Iface("net0", 0)>>)>>)

\* the guest's configuration at the start; an option of net1 has a value
\* that holds a `=`
RaceGuestConfig ==
  <<[k |-> "net0", v |-> <<"m", "=", "v", ",", "r", "a", "t", "e", "=", "5">>],
    [k |-> "net1", v |-> <<"m", "=", "v", "=", "w">>]>>

RaceInit ==
  /\ config = RaceConfig
  /\ phase = "init"
  /\ tasks = <<>>
  /\ now = 0
  /\ fires = <<>>
  /\ acts = <<>>
  /\ remote = [i \in 1..1 |->
                 [k |-> CHOOSE u \in GuestUrls(config) : TRUE,
                  v |-> RaceGuestConfig]]
  /\ codec = CodecIdle

RaceSpec == RaceInit /\ [][Next]_vars

StepInit ==
  /\ config = StepConfig
  /\ phase = "init"
  /\ tasks = <<>>
  /\ now = 0
  /\ fires = <<>>
  /\ acts = <<>>
  /\ remote = [i \in 1..1 |->
                 [k |-> CHOOSE u \in GuestUrls(config) : TRUE,
                  v |-> RaceGuestConfig]]
  /\ codec = CodecIdle

StepSpec == StepInit /\ [][Next]_vars

\* what another client of the remote service sets an interface to
ExternalValues == {<<"m", "=", "x">>}

\* another client of the remote service changes an interface of a guest
ExternalChange ==
  /\ phase = "running"
  /\ \E g \in 1..Len(remote) :
       \E key \in Keys(remote[g].v), value \in ExternalValues :
         /\ Get(remote[g].v, key) # value
         /\ remote' = [remote EXCEPT ![g].v = Put(@, key, value)]
  /\ UNCHANGED <<config, phase, tasks, now, fires, acts, codec>>

ExternalNext == Next \/ ExternalChange

\* one guest with one task, and other clients of the remote service
ExternalInit ==
  /\ config = OneGuest(<<Entry(T0700, R7)>>)
  /\ phase = "init"
  /\ tasks = <<>>
  /\ now = 0
  /\ fires = <<>>
  /\ acts = <<>>
  /\ remote = [i \in 1..1 |->
                 [k |-> CHOOSE u \in GuestUrls(config) : TRUE,
                  v |-> RaceGuestConfig]]
  /\ codec = CodecIdle

ExternalSpec == ExternalInit /\ [][ExternalNext]_vars

(***************************************************************************)
(* NetworkManager on its own: one call on arguments of a bounded set       *)
(***************************************************************************)
MaxEntries == 2

KeyPool ==
  {RateKey, <<"m">>, <<"1", "0">>, <<"2">>, <<>>, <<"k", "=">>,
   <<"a", ",", "b">>}

ValuePool ==
  {<<>>, <<"v">>, <<"5">>, <<"v", "=", "w">>, <<"v", ",", "w">>}

RatePool == {0, 7, 10, 125}

\* the objects of at most n properties
RECURSIVE Descriptors(_)
Descriptors(n) ==
  IF n = 0 THEN {<<>>}
  ELSE LET smaller == Descriptors(n - 1)
       IN smaller \cup
          {Append(d, [k |-> key, v |-> value]) :
             d \in {e \in smaller : Len(e) = n - 1},
             key \in KeyPool, value \in ValuePool}

CodecInit ==
  /\ config = [timezone |-> "UTC", servers |-> <<>>]
  /\ phase = "init"
  /\ tasks = <<>>
  /\ now = 0
  /\ fires = <<>>
  /\ acts = <<>>
  /\ remote = <<>>
  /\ \E d \in {e \in Descriptors(MaxEntries) :
                 \A i, j \in 1..Len(e) : e[i].k = e[j].k => i = j},
        r \in RatePool :
       codec = [CodecIdle EXCEPT !.net = d, !.rate = r]

\* NetworkManager.updateInterfaceRate(net, rate)
ApplyRate ==
  /\ codec.op = "none"
  /\ LET r == updateInterfaceRate(codec.net, codec.rate)
     IN codec' = [codec EXCEPT !.op = "applyRate", !.netAfter = r.net,
                               !.ret = r.ret]
  /\ UNCHANGED <<config, phase, tasks, now, fires, acts, remote>>

\* NetworkManager.parseNetworkInterface(NetworkManager.buildNetworkInterface(net))
RoundTrip ==
  /\ codec.op = "none"
  /\ LET str == buildNetworkInterface(codec.net)
     IN codec' = [codec EXCEPT !.op = "roundTrip", !.netAfter = codec.net,
                               !.str = str,
                               !.ret = parseNetworkInterface(str)]
  /\ UNCHANGED <<config, phase, tasks, now, fires, acts, remote>>

CodecNext == ApplyRate \/ RoundTrip

CodecSpec == CodecInit /\ [][CodecNext]_vars

(***************************************************************************)
(* Properties                                                              *)
(***************************************************************************)
Acts == 1..Len(acts)

TaskOf(a) == tasks[acts[a].task]

\* the callback has resumed on the answer to its GET
ReadDone(a) == acts[a].readRes # NoResponse

\* the GET was answered with a configuration that lacks the task's interface
InterfaceAbsent(a) ==
  /\ ReadDone(a)
  /\ acts[a].readRes.ok
  /\ acts[a].readRes.kind = "object"
  /\ ~HasKey(acts[a].readRes.data, TaskOf(a).interfaceName)

\* C1: a run whose GET is answered with a configuration that does not
\* contain the target interface sends no PUT and ends with the failure log.
C1_AbsentInterfaceNoWrite ==
  \A a \in Acts :
    InterfaceAbsent(a) =>
      /\ acts[a].writes = 0
      /\ acts[a].newConfig = <<>>
      /\ acts[a].pc = "done"
      /\ acts[a].outcome = "failure"

C1_Witness ==
  \E a \in Acts :
    /\ InterfaceAbsent(a)
    /\ acts[a].readRes.data # <<>>
    /\ acts[a].pc = "done"

\* the PUT was answered with a successful status and a data that is not null
WriteDataNotNull(a) ==
  /\ acts[a].pc = "done"
  /\ acts[a].writeRes.ok
  /\ acts[a].writeRes.kind = "value"

\* C2: a run whose PUT is answered with a successful status and a data that
\* is not null ends with the failure log, not the success log, and no
\* exception leaves it.
C2_NonNullDataIsFailure ==
  \A a \in Acts :
    WriteDataNotNull(a) =>
      /\ acts[a].outcome = "failure"
      /\ ~acts[a].escaped
      /\ acts[a].logged = "none"
      /\ phase = "running"

C2_Witness == \E a \in Acts : WriteDataNotNull(a) /\ acts[a].writes = 1

\* a schedule key of the form HH:MM, hour 00..23, minute 00..59
IsTimeOfDay(time) ==
  /\ Len(time) = 5
  /\ time[3] = ":"
  /\ \A i \in {1, 2, 4, 5} : IsDigit(time[i])
  /\ DigitVal(time[1]) * 10 + DigitVal(time[2]) < HoursPerDay
  /\ DigitVal(time[4]) * 10 + DigitVal(time[5]) < MinutesPerHour

\* its minute of the day
TimeOfDay(time) ==
  (DigitVal(time[1]) * 10 + DigitVal(time[2])) * MinutesPerHour
    + DigitVal(time[4]) * 10 + DigitVal(time[5])

\* the minutes in lo+1..hi at which the wall clock of `zone` reads `time`
ExpectedMinutes(time, zone, lo, hi) ==
  UNION {{m \in {t - o + k * MinutesPerDay :
                   o \in Offsets(zone), k \in 0..(MaxDays + 2)} :
            lo < m /\ m <= hi /\ LocalMinute(m, zone) = t} :
         t \in {TimeOfDay(time)}}

\* the run did not end with the success log
Failed(a) == acts[a].pc = "done" /\ acts[a].outcome # "success"

\* C3: however a run fails (status of the GET, status of the PUT, interface
\* absent, malformed answer), no exception leaves the callback; afterwards
\* the process runs, every task of the configuration is registered, and every
\* task, the failed one included, has run at each later minute at which the
\* wall clock read its time.
C3_ErrorIsolation ==
  /\ \A a \in Acts :
       Failed(a) =>
         /\ ~acts[a].escaped
         /\ acts[a].outcome = "failure"
         /\ phase = "running"
         /\ \A i \in 1..Len(tasks) :
              ExpectedMinutes(tasks[i].time, config.timezone, acts[a].at, now)
                \subseteq fires[i]
  /\ (\E a \in Acts : Failed(a)) => Len(tasks) = Len(StartCalls(config))

C3_Witness ==
  \E a \in Acts, b \in Acts :
    /\ Failed(a)
    /\ acts[a].logged = "Failed to update config"
    /\ acts[b].task = acts[a].task
    /\ acts[b].at > acts[a].at

\* the wall clock of the zone keeps one offset from UTC
FixedOffset(zone) == Cardinality(Offsets(zone)) = 1

\* exactly one run of task i in every window of 24 hours that has passed
OncePerWindow(i) ==
  \A w \in {0, now - MinutesPerDay} \cup {m - 1 : m \in fires[i]} \cup fires[i] :
    (0 <= w /\ w + MinutesPerDay <= now) =>
      Cardinality({m \in fires[i] : w < m /\ m <= w + MinutesPerDay}) = 1

\* task i has run at exactly the minutes at which the wall clock of the zone
\* read its time, and at a minute at which UTC read its time only if the two
\* clocks read the same
AtLocalTime(i) ==
  /\ fires[i] = ExpectedMinutes(tasks[i].time, config.timezone, 0, now)
  /\ \A t \in {TimeOfDay(tasks[i].time)} :
       \A m \in fires[i] :
         /\ LocalMinute(m, config.timezone) = t
         /\ UtcMinute(m) = t => LocalMinute(m, config.timezone) = UtcMinute(m)

\* C4: a task registered for HH:MM in zone Z runs at exactly the minutes at
\* which the wall clock of Z reads HH:MM: once in every window of 24 hours,
\* and never when UTC reads HH:MM unless the clock of Z reads the same.
C4_OncePerDayInEveryZone ==
  \A i \in 1..Len(tasks) :
    IsTimeOfDay(tasks[i].time) => AtLocalTime(i) /\ OncePerWindow(i)

\* C4, amended: a task registered for HH:MM in zone Z runs at exactly the
\* minutes at which the wall clock of Z reads HH:MM, never when UTC reads
\* HH:MM unless the clock of Z reads the same, and, in a zone whose offset
\* from UTC does not change, once in every window of 24 hours.
C4_FiresAtLocalTimeOncePerDay ==
  \A i \in 1..Len(tasks) :
    IsTimeOfDay(tasks[i].time) =>
      /\ AtLocalTime(i)
      /\ FixedOffset(config.timezone) => OncePerWindow(i)

C4_Witness ==
  /\ config.timezone = "Asia/Seoul"
  /\ \E i \in 1..Len(tasks) :
       /\ Cardinality(fires[i]) = 2
       /\ \E m \in 1..now : UtcMinute(m) = TimeOfDay(tasks[i].time)

SameGuest(i, j) ==
  getConfigUrl(tasks[i].client, tasks[i].nodeName, tasks[i].type, tasks[i].id)
    = getConfigUrl(tasks[j].client, tasks[j].nodeName, tasks[j].type,
                   tasks[j].id)

StartedAt(i, m) == \E a \in Acts : acts[a].task = i /\ acts[a].at = m

\* C5: when the tasks of two guests are due in the same minute, a run of each
\* is started in that minute, whatever runs are still under way.
C5_NonInterference ==
  \A i \in 1..Len(tasks), j \in 1..Len(tasks) :
    (i # j /\ ~SameGuest(i, j)) =>
      \A m \in ExpectedMinutes(tasks[i].time, config.timezone, 0, now)
                 \cap ExpectedMinutes(tasks[j].time, config.timezone, 0, now) :
        StartedAt(i, m) /\ StartedAt(j, m)

C5_Witness ==
  \E a \in Acts, b \in Acts, c \in Acts :
    /\ acts[a].at = acts[b].at
    /\ ~SameGuest(acts[a].task, acts[b].task)
    /\ acts[c].at < acts[a].at
    /\ acts[c].pc # "done"
    /\ acts[a].pc = "readSent"
    /\ acts[b].pc = "readSent"

\* C6: every run that is started reaches its end, with the success or the
\* failure log, also when the remote service never answers.
C6_EveryActionEnds ==
  \A a \in 1..MaxActs :
    (a <= Len(acts))
      ~> (a <= Len(acts) /\ acts[a].pc = "done"
                         /\ acts[a].outcome \in {"success", "failure"})

\* the entry of the configuration a call of scheduleNetworkUpdate comes from
SameEntry(task, call) ==
  /\ task.client = call.client
  /\ task.nodeName = call.nodeName
  /\ task.type = call.type
  /\ task.id = call.id
  /\ task.time = call.time
  /\ task.interfaceName = call.interfaceName
  /\ task.interfaceValue = call.interfaceValue

\* C7: after app.start() over a configuration with a schedule key that is no
\* HH:MM time of day, start has failed and no task is registered for that
\* entry; every task has a well-formed time and runs at that minute only.
C7_MalformedTimeRejected ==
  phase # "init" =>
    /\ \A c \in 1..Len(StartCalls(config)) :
         ~IsTimeOfDay(StartCalls(config)[c].time) =>
           /\ phase = "exited"
           /\ \A i \in 1..Len(tasks) : ~SameEntry(tasks[i], StartCalls(config)[c])
    /\ \A i \in 1..Len(tasks) :
         /\ IsTimeOfDay(tasks[i].time)
         /\ tasks[i].minutes = {TimeOfDay(tasks[i].time)}

\* the places <<server, node, guest, time, interface>> of a configuration
Places(cfg) ==
  UNION {UNION {UNION {UNION {
    {<<s, n, g, t, j>> :
       j \in 1..Len(cfg.servers[s].nodes[n].guests[g].sched[t].ifaces)} :
       t \in 1..Len(cfg.servers[s].nodes[n].guests[g].sched)} :
       g \in 1..Len(cfg.servers[s].nodes[n].guests)} :
       n \in 1..Len(cfg.servers[s].nodes)} :
       s \in 1..Len(cfg.servers)}

\* what the task of a place is to be bound to
Binding(cfg, p) ==
  LET server == cfg.servers[p[1]]
      node   == server.nodes[p[2]]
      guest  == node.guests[p[3]]
      entry  == guest.sched[p[4]]
  IN [client         |-> [host |-> server.url, apiId |-> server.id,
                          apiSecret |-> server.secret],
      nodeName       |-> node.name,
      type           |-> guest.type,
      id             |-> guest.id,
      time           |-> entry.time,
      interfaceName  |-> entry.ifaces[p[5]].name,
      interfaceValue |-> entry.ifaces[p[5]].rate]

TaskBinding(task) ==
  [client         |-> task.client,
   nodeName       |-> task.nodeName,
   type           |-> task.type,
   id             |-> task.id,
   time           |-> task.time,
   interfaceName  |-> task.interfaceName,
   interfaceValue |-> task.interfaceValue]

\* C8: after app.start() has returned, the tasks correspond one to one to the
\* (server, node, guest, time, interface) places of the configuration, each
\* bound to the client of its server and to the node, guest type, guest id,
\* interface and rate of its place.
C8_OneTaskPerTuple ==
  phase = "running" =>
    /\ Len(tasks) = Cardinality(Places(config))
    /\ \A i \in 1..Len(tasks) :
         \E p \in Places(config) : TaskBinding(tasks[i]) = Binding(config, p)
    /\ \A p \in Places(config) :
         Cardinality({i \in 1..Len(tasks) :
                        TaskBinding(tasks[i]) = Binding(config, p)})
           = Cardinality({q \in Places(config) :
                            Binding(config, q) = Binding(config, p)})

C8_Witness ==
  /\ phase = "running"
  /\ Len(config.servers) = 2
  /\ Len(tasks) >= 4
  /\ \E i \in 1..Len(tasks), j \in 1..Len(tasks) :
       tasks[i].client.host # tasks[j].client.host

\* the decimal string of a positive number: digits, no leading zero
IsDecimalOf(str, n) ==
  AllDigits(str) /\ str[1] # "0" /\ DigitsToNat(str) = n

\* C9: updateInterfaceRate(d, 0) has no rate key; for r > 0 its rate is the
\* decimal string of r; every other key of d is in the result with the same
\* value, and no other key is added.
C9_ApplyRate ==
  codec.op = "applyRate" =>
    /\ codec.rate = 0 => ~HasKey(codec.ret, RateKey)
    /\ codec.rate > 0 =>
         /\ HasKey(codec.ret, RateKey)
         /\ IsDecimalOf(Get(codec.ret, RateKey), codec.rate)
    /\ \A key \in Keys(codec.net) \ {RateKey} :
         HasKey(codec.ret, key) /\ Get(codec.ret, key) = Get(codec.net, key)
    /\ Keys(codec.ret) \subseteq Keys(codec.net) \cup {RateKey}
    /\ \A i, j \in 1..Len(codec.ret) :
         codec.ret[i].k = codec.ret[j].k => i = j

C9_Witness ==
  /\ codec.op = "applyRate"
  /\ codec.rate = 0
  /\ HasKey(codec.net, RateKey)
  /\ Len(codec.net) = 2
  /\ Len(codec.ret) = 1

Contains(str, c) == \E i \in 1..Len(str) : str[i] = c

NoEmptyKeys(net) == \A i \in 1..Len(net) : net[i].k # <<>>

\* neither a key nor a value holds one of the two separators
NoSeparators(net) ==
  \A i \in 1..Len(net) :
    \A c \in {",", "="} : ~Contains(net[i].k, c) /\ ~Contains(net[i].v, c)

\* C10: parseNetworkInterface(buildNetworkInterface(d)) has the keys and the
\* values of d, for every d with no empty key.
C10_RoundTripAnyDescriptor ==
  (codec.op = "roundTrip" /\ NoEmptyKeys(codec.net)) =>
    AsMap(codec.ret) = AsMap(codec.net)

\* what the code does give: the round trip of a d with no empty key whose keys
\* and values hold neither `,` nor `=`
RoundTripWithoutSeparators ==
  (codec.op = "roundTrip" /\ NoEmptyKeys(codec.net) /\ NoSeparators(codec.net))
    => /\ AsMap(codec.ret) = AsMap(codec.net)
       /\ Len(codec.ret) = Len(codec.net)

\* the place of the first `c` of a string, 0 if it has none
FirstIndex(str, c) ==
  IF Contains(str, c) THEN SetMin({i \in 1..Len(str) : str[i] = c}) ELSE 0

\* a segment cut at its first `=`
SegmentKey(seg) == SubSeq(seg, 1, FirstIndex(seg, "=") - 1)

SegmentValue(seg) == SubSeq(seg, FirstIndex(seg, "=") + 1, Len(seg))

\* the segment has a `=` and a key before it
GivesEntry(seg) == FirstIndex(seg, "=") > 1

\* net has one entry for every key of the segments of str that give one, with
\* the value of the last segment of that key
DecodesOnFirstEquals(str, net) ==
  \E segs \in {Split(str, ",")} :
    /\ Keys(net) = {SegmentKey(segs[i]) :
                      i \in {j \in 1..Len(segs) : GivesEntry(segs[j])}}
    /\ \A i \in 1..Len(segs) :
         (/\ GivesEntry(segs[i])
          /\ \A j \in (i + 1)..Len(segs) :
               GivesEntry(segs[j]) => SegmentKey(segs[j]) # SegmentKey(segs[i]))
           => Get(net, SegmentKey(segs[i])) = SegmentValue(segs[i])
    /\ \A i, j \in 1..Len(net) : net[i].k = net[j].k => i = j

\* C11: parseNetworkInterface(s) cuts s at every `,` and each segment at its
\* first `=`: the key is the text before it, the value all of the text after
\* it; a segment with an empty key or without `=` gives no entry.
C11_DecodeSplitsOnFirstEquals ==
  codec.op = "roundTrip" => DecodesOnFirstEquals(codec.str, codec.ret)

\* what the code does give for a string whose segments have one `=` at most
DecodeOfSingleEquals ==
  (/\ codec.op = "roundTrip"
   /\ \A seg \in {Split(codec.str, ",")[i] :
                    i \in 1..Len(Split(codec.str, ","))} :
        Cardinality({i \in 1..Len(seg) : seg[i] = "="}) <= 1)
    => DecodesOnFirstEquals(codec.str, codec.ret)

\* the runs of task i
RunsOf(i) == {a \in Acts : acts[a].task = i}

\* C12: a run sends one GET and at most one PUT, the PUT only after the
\* answer to its GET; the runs of a task are one for each minute at which the
\* wall clock has read its time, failed runs included, so that after a failure
\* nothing is sent for the task before its time comes round again.
C12_NoRetry ==
  /\ \A a \in Acts :
       /\ acts[a].reads = 1
       /\ acts[a].writes <= 1
       /\ acts[a].writes = 1 => ReadDone(a)
       /\ acts[a].pc = "done" => acts[a].writes = (IF acts[a].newConfig = <<>>
                                                   THEN 0 ELSE 1)
  /\ \A i \in 1..Len(tasks) :
       /\ {acts[a].at : a \in RunsOf(i)}
            = ExpectedMinutes(tasks[i].time, config.timezone, 0, now)
       /\ \A a, b \in RunsOf(i) : acts[a].at = acts[b].at => a = b

C12_Witness ==
  \E a \in Acts, b \in Acts :
    /\ Failed(a)
    /\ acts[a].logged = "Failed to get config"
    /\ acts[b].task = acts[a].task
    /\ acts[b].at > acts[a].at
    /\ acts[b].pc = "writeSent"

\* the minutes since the wall clock last read the time of task i
Age(i) ==
  (LocalMinute(now, config.timezone) + MinutesPerDay
     - TimeOfDay(tasks[i].time)) % MinutesPerDay

\* task i belongs to the latest past entry of its guest's sched
IsActive(i) ==
  \A j \in 1..Len(tasks) : SameGuest(i, j) => Age(i) <= Age(j)

\* C13: while the process runs, right after its start included, the rates of
\* the latest past entry of every guest's sched have been applied: a run of
\* each of its tasks has started since the entry's time passed or the process
\* started, whichever is later.
C13_ActiveScheduleApplied ==
  phase = "running" =>
    \A i \in 1..Len(tasks) :
      IsActive(i) => \E a \in RunsOf(i) : acts[a].at >= now - Age(i)

\* C14: updateInterfaceRate(d, r) leaves d as it was: after the call d has the
\* keys, the values and the order of keys it had before, whether the result
\* has the rate key removed or set.
C14_ApplyRateKeepsInput ==
  codec.op = "applyRate" =>
    /\ codec.netAfter = codec.net
    /\ AsMap(codec.netAfter) = AsMap(codec.net)

C14_Witness ==
  /\ codec.op = "applyRate"
  /\ codec.rate > 0
  /\ HasKey(codec.net, RateKey)
  /\ Get(codec.ret, RateKey) # Get(codec.net, RateKey)
  /\ Get(codec.netAfter, RateKey) = <<"5">>

\* the same where the result has the key removed
C14_WitnessRemoved ==
  /\ codec.op = "applyRate"
  /\ codec.rate = 0
  /\ HasKey(codec.netAfter, RateKey)
  /\ ~HasKey(codec.ret, RateKey)

\* the descriptor of a string as C11 reads it: the pairs of key and value
DescriptorOf(str) ==
  UNION {{<<SegmentKey(segs[i]), SegmentValue(segs[i])>> :
            i \in {j \in 1..Len(segs) :
                     /\ GivesEntry(segs[j])
                     /\ \A l \in (j + 1)..Len(segs) :
                          GivesEntry(segs[l])
                            => SegmentKey(segs[l]) # SegmentKey(segs[j])}} :
         segs \in {Split(str, ",")}}

WithoutRate(desc) == {e \in desc : e[1] # RateKey}

\* the run has sent its PUT
WriteSent(a) == acts[a].writes = 1

\* the interface string the run read
ReadString(a) == Get(acts[a].readRes.data, TaskOf(a).interfaceName)

\* C15: the body of a run's PUT has one key, the task's interface, and its
\* value is the descriptor the run read for that interface with only the rate
\* changed: no rate for a target of 0, the target otherwise, every other key
\* with the value read.
C15_PatchChangesOnlyRate ==
  \A a \in Acts :
    WriteSent(a) =>
      /\ Len(acts[a].newConfig) = 1
      /\ acts[a].newConfig[1].k = TaskOf(a).interfaceName
      /\ \E patch \in {DescriptorOf(acts[a].newConfig[1].v)},
            read \in {DescriptorOf(ReadString(a))} :
           /\ WithoutRate(patch) = WithoutRate(read)
           /\ \A e \in patch \ WithoutRate(patch) :
                /\ TaskOf(a).interfaceValue > 0
                /\ IsDecimalOf(e[2], TaskOf(a).interfaceValue)
           /\ TaskOf(a).interfaceValue > 0 => patch # WithoutRate(patch)

\* what the code does give when no value read holds a `=`
PatchOfSingleEquals ==
  \A a \in Acts :
    (WriteSent(a) /\ \A e \in DescriptorOf(ReadString(a)) : ~Contains(e[2], "="))
      => /\ Len(acts[a].newConfig) = 1
         /\ acts[a].newConfig[1].k = TaskOf(a).interfaceName
         /\ WithoutRate(DescriptorOf(acts[a].newConfig[1].v))
              = WithoutRate(DescriptorOf(ReadString(a)))

\* the GET was answered with a successful status and a configuration that
\* has the task's interface (a descriptor that is not empty)
InterfacePresent(a) ==
  /\ ReadDone(a)
  /\ acts[a].readRes.ok
  /\ acts[a].readRes.kind = "object"
  /\ HasKey(acts[a].readRes.data, TaskOf(a).interfaceName)
  /\ ReadString(a) # <<>>

\* the PUT was sent and answered with a successful status and a null data
WriteAcknowledged(a) ==
  /\ WriteSent(a)
  /\ acts[a].writeRes.ok
  /\ acts[a].writeRes.kind = "null"

\* C16: a run ends with the success log if and only if its GET was answered
\* with a successful status and a configuration that has the interface, its
\* PUT was sent after that answer and was answered with a successful status
\* and a null data; every other run that ends, ends with the failure log, and
\* a run logs one outcome, at its end.
C16_SuccessIff ==
  \A a \in Acts :
    /\ acts[a].pc = "done" <=> acts[a].outcome \in {"success", "failure"}
    /\ acts[a].pc # "done" => acts[a].outcome = "none"
    /\ acts[a].outcome = "success"
         <=> (acts[a].pc = "done" /\ InterfacePresent(a) /\ WriteAcknowledged(a))
    /\ WriteSent(a) => InterfacePresent(a)
    /\ acts[a].writeRes # NoResponse => WriteSent(a)

C16_Witness ==
  \E a \in Acts, b \in Acts :
    /\ acts[a].outcome = "success"
    /\ acts[b].outcome = "failure"
    /\ InterfacePresent(b)
    /\ WriteSent(b)
    /\ ~acts[b].writeRes.ok
    /\ acts[b].writeRes.kind = "null"

RemoteDescriptor(a) ==
  DescriptorOf(Get(Get(remote, acts[a].url), TaskOf(a).interfaceName))

\* the remote configuration has the rate of run a's task: none for a target
\* of 0, the target otherwise
TargetApplied(a) ==
  \E d \in {RemoteDescriptor(a)} :
    IF TaskOf(a).interfaceValue = 0 THEN d = WithoutRate(d)
    ELSE \E e \in d : e[1] = RateKey
                      /\ IsDecimalOf(e[2], TaskOf(a).interfaceValue)

Succeeded(a) == acts[a].pc = "done" /\ acts[a].outcome = "success"

\* C18: when two runs of one minute for two interfaces of one guest have both
\* succeeded, the guest's configuration has the rate of each, in whatever
\* order their GETs and PUTs were answered.
C18_NoLostUpdateAcrossInterfaces ==
  \A a \in Acts, b \in Acts :
    (/\ acts[a].url = acts[b].url
     /\ acts[a].at = acts[b].at
     /\ TaskOf(a).interfaceName # TaskOf(b).interfaceName
     /\ Succeeded(a) /\ Succeeded(b))
      => TargetApplied(a) /\ TargetApplied(b)

\* both runs read the configuration before either wrote
C18_Witness ==
  \E a \in Acts, b \in Acts :
    /\ acts[a].url = acts[b].url
    /\ acts[a].at = acts[b].at
    /\ TaskOf(a).interfaceName # TaskOf(b).interfaceName
    /\ Succeeded(a) /\ Succeeded(b)
    /\ acts[a].readRes.data = acts[b].readRes.data
    /\ acts[a].readRes.data = RaceGuestConfig
    /\ Get(remote, acts[a].url) # acts[a].readRes.data

\* runs a and b are for one interface of one guest
SameTarget(a, b) ==
  /\ acts[a].url = acts[b].url
  /\ TaskOf(a).interfaceName = TaskOf(b).interfaceName

\* C19: when two runs for one interface of one guest, started at different
\* times, have both succeeded, and no run started later still has had its PUT
\* acknowledged, the remote configuration has the rate of the run that started
\* later, however late the answers came.
C19_LaterTriggerWins ==
  \A a \in Acts, b \in Acts :
    (/\ SameTarget(a, b)
     /\ acts[a].at < acts[b].at
     /\ Succeeded(a) /\ Succeeded(b)
     /\ \A c \in Acts :
          (SameTarget(c, b) /\ acts[c].at > acts[b].at) => ~WriteAcknowledged(c))
      => TargetApplied(b)

\* what the code does give: the rate is that of a run whose PUT was
\* acknowledged, the later or an earlier one
RateOfSomeAcknowledgedRun ==
  \A b \in Acts :
    Succeeded(b) => \E a \in Acts : /\ SameTarget(a, b)
                                    /\ Succeeded(a)
                                    /\ TargetApplied(a)

\* the step in which the PUT of run a is acknowledged and applied
WriteLands(a) ==
  /\ a <= Len(acts)
  /\ acts[a].pc = "writeSent"
  /\ acts'[a].pc = "done"
  /\ acts'[a].writeRes.ok
  /\ acts'[a].writeRes.kind = "null"

\* C20: the PUT of a run changes only the rate of its interface: every other
\* key of the interface has after the write the value it had in the remote
\* configuration right before it, also when the interface was changed
\* between the run's GET and its PUT.
C20_WriteChangesOnlyRate ==
  [][\A a \in 1..MaxActs :
       WriteLands(a) =>
         WithoutRate(RemoteDescriptor(a)') = WithoutRate(RemoteDescriptor(a))]_vars

\* what the code does give: after the write the interface is the descriptor
\* the run read, with the rate of its task
WriteRestoresWhatWasRead ==
  [][\A a \in 1..MaxActs :
       WriteLands(a) =>
         /\ WithoutRate(RemoteDescriptor(a)')
              = WithoutRate(DescriptorOf(ReadString(a)))
         /\ TargetApplied(a)']_vars
====
